---- MODULE Spec2Model ----
(***************************************************************************)
(* Model of google-personal-mcp's core: the credential lifecycle           *)
(* (google_mcp_core/auth.py, AuthManager.get_credentials), the Drive       *)
(* access guard (google_mcp_core/drive.py, DriveService), the resource     *)
(* registry (google_mcp_core/config.py, ConfigManager) and the entry       *)
(* points over them (google_personal_mcp/server.py, google_mcp_core/cli.py)*)
(*                                                                         *)
(* A call is one atomic action.  The order of the steps inside a call is   *)
(* kept in call.events, in the order the code takes them:                  *)
(*   refresh            creds.refresh(...) is called (state Refreshing)    *)
(*   refresh_failed     the remote refresh call failed                     *)
(*   consent            the OAuth2 branch is entered (state Consent)       *)
(*   run_local_server   the interactive flow is launched                   *)
(*   open_w             token.json is opened for writing (and truncated)   *)
(*   write              the record is written to token.json                *)
(*   return / raise     the call hands a record, or an error, to its caller*)
(***************************************************************************)
EXTENDS Integers, Sequences, FiniteSets, TLC

VARIABLES token_file, now, issued, call, config_file, config

vars == <<token_file, now, issued, call, config_file, config>>

(***************************************************************************)
(* Bounds                                                                  *)
(***************************************************************************)
\* the clock runs from 0 to MaxTime
MaxTime == 2
\* the remote authorization server issues at most this many tokens
MaxIssued == 2
\* the remote issues tokens that live this long
Lifetime == 2

(***************************************************************************)
(* Values                                                                  *)
(***************************************************************************)
Profiles == {"default", "work"}

\* Python's None for an Optional argument or variable: <<>>; a value v: <<v>>
None == <<>>

Some(v) == <<v>>

\* a missing token (a refresh_token of null)
NoToken == 0

\* get_credentials' scopes when the caller passes none
DefaultScopes == {"spreadsheets", "drive.file"}

\* the scopes list_all_files asks for
BroadScopes == {"spreadsheets", "drive.file", "drive.readonly"}

\* the scopes arguments the callers pass: None, or a list
ScopeArgs == {None, Some(BroadScopes)}

(***************************************************************************)
(* The token file of a profile, <config_dir>/token.json                    *)
(*   absent   no file                                                      *)
(*   json     a record written by creds.to_json()                          *)
(*   garbage  a file from_authorized_user_file cannot parse                *)
(*   empty    a file opened for writing and never written                  *)
(***************************************************************************)
File(kind, scopes, token, refresh_token, expiry) ==
    [kind |-> kind, scopes |-> scopes, token |-> token,
     refresh_token |-> refresh_token, expiry |-> expiry]

AbsentFile == File("absent", {}, NoToken, NoToken, 0)

GarbageFile == File("garbage", {}, NoToken, NoToken, 0)

EmptyFile == File("empty", {}, NoToken, NoToken, 0)

\* Credentials: the in-memory record
Credentials(scopes, token, refresh_token, expiry) ==
    [scopes |-> scopes, token |-> token,
     refresh_token |-> refresh_token, expiry |-> expiry]

\* creds.to_json(): the file's contents for a record
to_json(creds) ==
    File("json", creds.scopes, creds.token, creds.refresh_token, creds.expiry)

\* os.path.exists(token_path)
exists(file) == file.kind # "absent"

\* Credentials.from_authorized_user_file raises on a file that is no record
load_raises(file) == file.kind # "json"

\* Credentials.from_authorized_user_file(token_path), scopes not forced
from_authorized_user_file(file) ==
    Credentials(file.scopes, file.token, file.refresh_token, file.expiry)

\* a has_scopes that is content with any one of the requested scopes
has_scopes_any(creds, scopes) == scopes \cap creds.scopes # {}

\* creds.has_scopes(scopes): every requested scope is among the granted
has_scopes(creds, scopes) == scopes \subseteq creds.scopes

\* creds.expired at time t
expired(creds, t) == t >= creds.expiry

\* a valid that looks at the access token alone
valid_ignores_expiry(creds, t) == creds.token # NoToken

\* creds.valid at time t
valid(creds, t) == creds.token # NoToken /\ ~expired(creds, t)

(***************************************************************************)
(* What the environment answers during one get_credentials call            *)
(*   refresh  "ok" | "fails"              the remote refresh call          *)
(*   secrets  "found" | "missing"         find_credentials_file            *)
(*   consent  "ok" | "fails"              flow.run_local_server            *)
(*   offline  TRUE: the consent grants a refresh token                     *)
(*   write    "ok" | "open_fails" | "write_fails"   the save of token.json *)
(* An answer the call does not ask for is left at its first value.         *)
(***************************************************************************)
EnvOf(refresh, secrets, consent, offline, write) ==
    [refresh |-> refresh, secrets |-> secrets, consent |-> consent,
     offline |-> offline, write |-> write]

WriteAnswers == {"ok", "open_fails", "write_fails"}

Env ==
    {EnvOf("ok", "found", "ok", TRUE, w) : w \in WriteAnswers}
    \cup {EnvOf("ok", "found", "ok", FALSE, w) : w \in WriteAnswers}
    \cup {EnvOf("fails", "found", "fails", TRUE, "ok"),
          EnvOf("fails", "missing", "ok", TRUE, "ok")}

(***************************************************************************)
(* AuthManager.get_config_dir                                              *)
(*                                                                         *)
(* The profile is joined to <base>/<app_name>/profiles as it is given, so  *)
(* a profile name is a relative path: the file system, not the name,       *)
(* decides which directory it is.                                          *)
(***************************************************************************)
\* the profile arguments: the profiles, and a second spelling of one
ProfileNames == Profiles \cup {"./work"}

\* the path components of a profile name
components(profile) ==
    IF profile = "./work" THEN <<".", "work">> ELSE <<profile>>

\* the directory a relative path leads to: "." is the directory it is met in
RECURSIVE resolved(_)
resolved(path) ==
    IF path = <<>> THEN <<>>
    ELSE IF Head(path) = "." THEN resolved(Tail(path))
    ELSE <<Head(path)>> \o resolved(Tail(path))

\* get_config_dir(profile): os.path.join(base_dir, app_name, "profiles",
\* profile), as the directory under profiles/ that it is
get_config_dir(profile) == resolved(components(profile))

\* os.path.join(config_dir, "token.json")
token_path(profile) == get_config_dir(profile) \o <<"token.json">>

\* token_file is indexed by the directory under profiles/ of each token.json
stored_at(path) == path[1]

(***************************************************************************)
(* AuthManager.get_credentials                                             *)
(***************************************************************************)
\* the scopes of the request: the default when the caller passes none
resolve_scopes(scopes_arg) ==
    IF scopes_arg = None THEN DefaultScopes ELSE scopes_arg[1]

\* the stored record as get_credentials keeps it: None when there is no
\* file, when the file does not load, or when the record lacks the scopes
load_credentials(file, scopes) ==
    IF ~exists(file) THEN None
    ELSE IF load_raises(file) THEN None
    ELSE IF ~has_scopes(from_authorized_user_file(file), scopes) THEN None
    ELSE Some(from_authorized_user_file(file))

\* the branch condition: the kept record is expired and can be refreshed
should_refresh(creds, t) ==
    creds # None /\ expired(creds[1], t) /\ creds[1].refresh_token # NoToken

\* a refresh that rebuilds the record without its refresh token
refresh_drops_refresh_token(creds, t, tok) ==
    Credentials(creds.scopes, tok, NoToken, t + Lifetime)

\* creds.refresh(request), succeeding: the remote issues access token tok
\* with a new expiry; scopes and refresh token stay
refresh(creds, t, tok) ==
    Credentials(creds.scopes, tok, creds.refresh_token, t + Lifetime)

\* flow.run_local_server(port=0), succeeding: a new record for the requested
\* scopes, with a refresh token when offline access was granted
run_local_server(scopes, t, tok, offline) ==
    Credentials(scopes, tok, IF offline THEN tok ELSE NoToken, t + Lifetime)

\* the outcome of one call
Outcome(events, outcome, error, creds, file, tok) ==
    [events |-> events, outcome |-> outcome, error |-> error,
     creds |-> creds, file |-> file, issued |-> tok]

\* a save that is skipped: the record is returned and never written
save_and_return_unsaved(done, creds, file, tok, write) ==
    Outcome(done \o <<"return">>, "returned", "", Some(creds), file, tok)

\* lines 73-78: save the record to token.json, then return it
save_and_return(done, creds, file, tok, write) ==
    IF write = "open_fails"
    THEN Outcome(done \o <<"raise">>, "raised", "OSError", None, file, tok)
    ELSE IF write = "write_fails"
    THEN Outcome(done \o <<"open_w", "raise">>, "raised", "OSError", None,
                 EmptyFile, tok)
    ELSE Outcome(done \o <<"open_w", "write", "return">>, "returned", "",
                 Some(creds), to_json(creds), tok)

\* a consent branch that launches the flow a second time when it fails
consent_flow_retries(scopes, file, t, tok, env) ==
    IF env.secrets = "missing"
    THEN Outcome(<<"consent", "raise">>, "raised", "FileNotFoundError", None,
                 file, tok)
    ELSE IF env.consent = "fails"
    THEN Outcome(<<"consent", "run_local_server", "run_local_server", "raise">>,
                 "raised", "FlowError", None, file, tok)
    ELSE save_and_return(<<"consent", "run_local_server">>,
                         run_local_server(scopes, t, tok + 1, env.offline),
                         file, tok + 1, env.write)

\* a consent branch that removes the unusable token file before the flow
consent_flow_discards_file(scopes, file, t, tok, env) ==
    IF env.secrets = "missing"
    THEN Outcome(<<"consent", "raise">>, "raised", "FileNotFoundError", None,
                 AbsentFile, tok)
    ELSE IF env.consent = "fails"
    THEN Outcome(<<"consent", "run_local_server", "raise">>, "raised",
                 "FlowError", None, AbsentFile, tok)
    ELSE save_and_return(<<"consent", "run_local_server">>,
                         run_local_server(scopes, t, tok + 1, env.offline),
                         file, tok + 1, env.write)

\* lines 68-71: the interactive flow
consent_flow(scopes, file, t, tok, env) ==
    IF env.secrets = "missing"
    THEN Outcome(<<"consent", "raise">>, "raised", "FileNotFoundError", None,
                 file, tok)
    ELSE IF env.consent = "fails"
    THEN Outcome(<<"consent", "run_local_server", "raise">>, "raised",
                 "FlowError", None, file, tok)
    ELSE save_and_return(<<"consent", "run_local_server">>,
                         run_local_server(scopes, t, tok + 1, env.offline),
                         file, tok + 1, env.write)

\* lines 64-66: the refresh
refresh_flow(creds, file, t, tok, env) ==
    IF env.refresh = "fails"
    THEN Outcome(<<"refresh", "refresh_failed", "raise">>, "raised",
                 "RefreshError", None, file, tok)
    ELSE save_and_return(<<"refresh">>, refresh(creds, t, tok + 1),
                         file, tok + 1, env.write)

\* a get_credentials whose save is outside the "if": it writes on every call
get_credentials_always_saves(file, scopes_arg, t, tok, env) ==
    LET scopes == resolve_scopes(scopes_arg)
        creds == load_credentials(file, scopes)
    IN  IF creds # None /\ valid(creds[1], t)
        THEN save_and_return(<<>>, creds[1], file, tok, env.write)
        ELSE IF should_refresh(creds, t)
        THEN refresh_flow(creds[1], file, t, tok, env)
        ELSE consent_flow(scopes, file, t, tok, env)

\* a get_credentials that calls creds.refresh before it tests that it kept
\* a record: without one the call fails on None
get_credentials_refreshes_without_record(file, scopes_arg, t, tok, env) ==
    LET scopes == resolve_scopes(scopes_arg)
        creds == load_credentials(file, scopes)
    IN  IF creds # None /\ valid(creds[1], t)
        THEN Outcome(<<"return">>, "returned", "", creds, file, tok)
        ELSE IF creds = None
        THEN Outcome(<<"refresh", "raise">>, "raised", "AttributeError", None,
                     file, tok)
        ELSE IF should_refresh(creds, t)
        THEN refresh_flow(creds[1], file, t, tok, env)
        ELSE consent_flow(scopes, file, t, tok, env)

\* a get_credentials whose load has no try/except: a token file that does
\* not parse ends the call
get_credentials_load_unguarded(file, scopes_arg, t, tok, env) ==
    LET scopes == resolve_scopes(scopes_arg)
        creds == load_credentials(file, scopes)
    IN  IF exists(file) /\ load_raises(file)
        THEN Outcome(<<"raise">>, "raised", "ValueError", None, file, tok)
        ELSE IF creds # None /\ valid(creds[1], t)
        THEN Outcome(<<"return">>, "returned", "", creds, file, tok)
        ELSE IF should_refresh(creds, t)
        THEN refresh_flow(creds[1], file, t, tok, env)
        ELSE consent_flow(scopes, file, t, tok, env)

get_credentials(file, scopes_arg, t, tok, env) ==
    LET scopes == resolve_scopes(scopes_arg)
        creds == load_credentials(file, scopes)
    IN  IF creds # None /\ valid(creds[1], t)
        THEN Outcome(<<"return">>, "returned", "", creds, file, tok)
        ELSE IF should_refresh(creds, t)
        THEN refresh_flow(creds[1], file, t, tok, env)
        ELSE consent_flow(scopes, file, t, tok, env)

(***************************************************************************)
(* DriveService (google_mcp_core/drive.py)                                 *)
(*                                                                         *)
(* Identifiers are strings; "" is the empty string.  The events of a       *)
(* Drive call:                                                             *)
(*   files.get         the metadata lookup (fields="parents")              *)
(*   access_ok         _verify_access returned                             *)
(*   access_denied     _verify_access raised PermissionError               *)
(*   files.list        files().list(q="'<folder>' in parents ...")         *)
(*   files.list_all    files().list(pageSize=...), the unrestricted list   *)
(*   files.get_media   the download                                        *)
(*   files.create      the upload                                          *)
(*   files.delete      the removal                                         *)
(***************************************************************************)
FolderIds == {"", "F1", "F2"}

FileIds == {"", "f1", "f2"}

\* the folders the remote may name as a file's parents
ParentIds == {"F1", "F2"}

\* the answers of the metadata lookup: the parents, or a failure
Lookup(status, parents) == [status |-> status, parents |-> parents]

Lookups ==
    {Lookup("ok", ps) : ps \in SUBSET ParentIds}
    \cup {Lookup("not_found", {}), Lookup("transient", {})}

\* the allowed_folder_ids arguments: None, or a list of folder ids
AllowedArgs == {None} \cup {Some(ids) : ids \in SUBSET FolderIds}

\* Python's truth of an Optional[str]: neither None nor ""
truthy(arg) == arg # None /\ arg[1] # ""

\* DriveService.__init__: allowed_folder_ids or []
DriveService(allowed_arg) ==
    [allowed_folder_ids |-> IF allowed_arg = None THEN {} ELSE allowed_arg[1]]

Verdict(events, ok, reason) == [events |-> events, ok |-> ok, reason |-> reason]

\* a parents check that lets the call through when the lookup fails
verify_file_fail_open(allowed, lookup) ==
    IF lookup.status # "ok"
    THEN Verdict(<<"files.get">>, TRUE, "")
    ELSE IF lookup.parents \cap allowed = {}
    THEN Verdict(<<"files.get">>, FALSE, "could not verify")
    ELSE Verdict(<<"files.get">>, TRUE, "")

\* a parents check with all() where the code has any()
verify_file_all_parents(allowed, lookup) ==
    IF lookup.status # "ok"
    THEN Verdict(<<"files.get">>, FALSE, "could not verify")
    ELSE IF ~(lookup.parents \subseteq allowed)
    THEN Verdict(<<"files.get">>, FALSE, "could not verify")
    ELSE Verdict(<<"files.get">>, TRUE, "")

\* the check of a file's parents, lines 28-38
verify_file(allowed, lookup) ==
    IF lookup.status # "ok"
    THEN Verdict(<<"files.get">>, FALSE, "could not verify")
    ELSE IF lookup.parents \cap allowed = {}
    THEN Verdict(<<"files.get">>, FALSE, "could not verify")
    ELSE Verdict(<<"files.get">>, TRUE, "")

\* a _verify_access without the test for an empty allowlist
verify_access_no_empty_test(self, file_id, parent_id, lookup) ==
    IF truthy(parent_id) /\ parent_id[1] \notin self.allowed_folder_ids
    THEN Verdict(<<>>, FALSE, "folder not allowed")
    ELSE IF truthy(file_id)
    THEN verify_file(self.allowed_folder_ids, lookup)
    ELSE Verdict(<<>>, TRUE, "")

\* DriveService._verify_access(file_id, parent_id)
verify_access(self, file_id, parent_id, lookup) ==
    IF self.allowed_folder_ids = {}
    THEN Verdict(<<>>, FALSE, "no folders configured")
    ELSE IF truthy(parent_id) /\ parent_id[1] \notin self.allowed_folder_ids
    THEN Verdict(<<>>, FALSE, "folder not allowed")
    ELSE IF truthy(file_id)
    THEN verify_file(self.allowed_folder_ids, lookup)
    ELSE Verdict(<<>>, TRUE, "")

\* the outcome of a Drive call
DriveOutcome(events, outcome, error) ==
    [events |-> events, outcome |-> outcome, error |-> error]

\* a guarded operation whose check does not stop it: the denial is noted
\* and the remote call is issued all the same
guarded_check_ignored(verdict, remote_call, remote) ==
    LET seen == verdict.events
                \o <<IF verdict.ok THEN "access_ok" ELSE "access_denied">>
    IN  IF remote = "fails"
        THEN DriveOutcome(seen \o <<remote_call, "raise">>, "raised", "HttpError")
        ELSE DriveOutcome(seen \o <<remote_call, "return">>, "returned", "")

\* a guarded operation: _verify_access first, then the remote call
guarded(verdict, remote_call, remote) ==
    IF ~verdict.ok
    THEN DriveOutcome(verdict.events \o <<"access_denied", "raise">>, "raised",
                      verdict.reason)
    ELSE IF remote = "fails"
    THEN DriveOutcome(verdict.events \o <<"access_ok", remote_call, "raise">>,
                      "raised", "HttpError")
    ELSE DriveOutcome(verdict.events \o <<"access_ok", remote_call, "return">>,
                      "returned", "")

list_files(self, folder_id, lookup, remote) ==
    guarded(verify_access(self, None, Some(folder_id), lookup), "files.list", remote)

list_all_files(self, remote) ==
    IF remote = "fails"
    THEN DriveOutcome(<<"files.list_all", "raise">>, "raised", "HttpError")
    ELSE DriveOutcome(<<"files.list_all", "return">>, "returned", "")

download_file(self, file_id, lookup, remote) ==
    guarded(verify_access(self, Some(file_id), None, lookup), "files.get_media",
            remote)

upload_file(self, folder_id, lookup, remote) ==
    guarded(verify_access(self, None, Some(folder_id), lookup), "files.create",
            remote)

remove_file(self, file_id, lookup, remote) ==
    guarded(verify_access(self, Some(file_id), None, lookup), "files.delete",
            remote)

(***************************************************************************)
(* ConfigManager (google_mcp_core/config.py)                               *)
(*                                                                         *)
(* A registry (a dict alias -> ResourceConfig) is the set of its entries,  *)
(* at most one per alias.  An entry's description plays no part and is     *)
(* left out.                                                               *)
(***************************************************************************)
\* ResourceConfig(id, profile)
ResourceConfig(id, profile) == [id |-> id, profile |-> profile]

\* one item of a registry: the alias and its ResourceConfig
Entry(alias, id, profile) == [alias |-> alias, id |-> id, profile |-> profile]

\* AppConfig(sheets, drive_folders)
AppConfig(sheets, drive_folders) == [sheets |-> sheets, drive_folders |-> drive_folders]

\* the config.json of the installation
\*   absent         no file
\*   invalid_json   json.load raises
\*   invalid_entry  the JSON loads and AppConfig(**data) rejects it (an entry
\*                  without id, a field of the wrong type); sheets and
\*                  drive_folders are the entries that would validate
\*   ok             the JSON loads and validates
\* In the file an entry's profile is None when the key is left out.
ConfigFile(kind, sheets, drive_folders) ==
    [kind |-> kind, sheets |-> sheets, drive_folders |-> drive_folders]

\* ResourceConfig.profile: "default" when the file gives none
parse_entry(e) ==
    Entry(e.alias, e.id, IF e.profile = None THEN "default" ELSE e.profile[1])

\* a _load_config that validates entry by entry and keeps the good ones
load_config_keeps_valid_entries(file) ==
    IF file.kind \in {"ok", "invalid_entry"}
    THEN AppConfig({parse_entry(e) : e \in file.sheets},
                   {parse_entry(e) : e \in file.drive_folders})
    ELSE AppConfig({}, {})

\* ConfigManager._load_config
load_config(file) ==
    IF file.kind = "ok"
    THEN AppConfig({parse_entry(e) : e \in file.sheets},
                   {parse_entry(e) : e \in file.drive_folders})
    ELSE AppConfig({}, {})

\* registry[alias], for an alias in the registry
resource_of(registry, alias) ==
    LET e == CHOOSE e \in registry : e.alias = alias
    IN  ResourceConfig(e.id, e.profile)

\* a lookup that takes an unknown alias for the identifier itself
get_resource_raw_fallback(registry, alias) ==
    IF \E e \in registry : e.alias = alias
    THEN Some(resource_of(registry, alias))
    ELSE Some(ResourceConfig(alias, "default"))

\* get_sheet_resource / get_folder_resource on their registry: the
\* ResourceConfig, or None for the ValueError "... not found in configuration"
get_resource(registry, alias) ==
    IF \E e \in registry : e.alias = alias
    THEN Some(resource_of(registry, alias))
    ELSE None

\* ConfigManager.get_sheet_resource
get_sheet_resource(cfg, alias) == get_resource(cfg.sheets, alias)

\* ConfigManager.get_folder_resource
get_folder_resource(cfg, alias) == get_resource(cfg.drive_folders, alias)

\* ConfigManager.get_allowed_folder_ids(profile_name)
get_allowed_folder_ids(cfg, profile_name) ==
    IF truthy(profile_name)
    THEN {e.id : e \in {f \in cfg.drive_folders : f.profile = profile_name[1]}}
    ELSE {e.id : e \in cfg.drive_folders}

(***************************************************************************)
(* Entry points (google_personal_mcp/server.py, google_mcp_core/cli.py)    *)
(*                                                                         *)
(* A service is what an entry point builds before it calls the remote      *)
(* API: the profile and scopes of its GoogleContext, the allowlist of its  *)
(* DriveService (None for a SheetsService or a DriveService built without  *)
(* one), and the remote identifier the entry point passes on.  A Run is    *)
(* what the body of an entry point did: the steps in order, whether it     *)
(* raised, the profile the credential was obtained for, the identifier     *)
(* handed to the remote API, and the token files and tokens after it.      *)
(***************************************************************************)
Service(profile, scopes_arg, allowed_arg, id) ==
    [profile |-> profile, scopes_arg |-> scopes_arg, allowed_arg |-> allowed_arg,
     id |-> id]

Run(events, raised, error, profile, remote_id, files, tok) ==
    [events |-> events, raised |-> raised, error |-> error, profile |-> profile,
     remote_id |-> remote_id, files |-> files, issued |-> tok]

\* GoogleContext(profile, scopes): the credential of that profile, obtained
\* through AuthManager.get_credentials before the service calls the remote API
GoogleContext(profile, scopes_arg, files, t, tok, env) ==
    get_credentials(files[profile], scopes_arg, t, tok, env)

\* a SheetsService request (list_sheet_titles, read_range, insert_row_at_top)
sheets_request(spreadsheet_id, remote) ==
    IF remote = "fails"
    THEN DriveOutcome(<<"sheets.request", "raise">>, "raised", "HttpError")
    ELSE DriveOutcome(<<"sheets.request", "return">>, "returned", "")

\* the operations of the services, by name
perform(svc, op, file_id, lookup, remote) ==
    CASE op = "sheets" -> sheets_request(svc.id, remote)
      [] op = "list_files" ->
            list_files(DriveService(svc.allowed_arg), svc.id, lookup, remote)
      [] op = "upload_file" ->
            upload_file(DriveService(svc.allowed_arg), svc.id, lookup, remote)
      [] op = "download_file" ->
            download_file(DriveService(svc.allowed_arg), file_id, lookup, remote)
      [] op = "remove_file" ->
            remove_file(DriveService(svc.allowed_arg), file_id, lookup, remote)
      [] op = "list_all_files" ->
            list_all_files(DriveService(svc.allowed_arg), remote)

\* the identifier an operation hands to the remote API
target_of(svc, op, file_id) ==
    CASE op \in {"sheets", "list_files", "upload_file"} -> Some(svc.id)
      [] op \in {"download_file", "remove_file"} -> Some(file_id)
      [] op = "list_all_files" -> None

\* the body of an entry point once its service is built (None: the alias
\* did not resolve): the credential, then the operation
request(done, svc, op, file_id, files, t, tok, env, lookup, remote) ==
    IF svc = None
    THEN Run(done \o <<"not_found">>, TRUE, "ValueError", None, None, files, tok)
    ELSE LET s == svc[1]
             auth == GoogleContext(s.profile, s.scopes_arg, files, t, tok, env)
             after == [files EXCEPT ![s.profile] = auth.file]
             seen == done \o <<"get_credentials">> \o auth.events
         IN  IF auth.outcome = "raised"
             THEN Run(seen, TRUE, auth.error, Some(s.profile), None, after,
                      auth.issued)
             ELSE LET r == perform(s, op, file_id, lookup, remote)
                  IN  Run(seen \o r.events, r.outcome = "raised", r.error,
                          Some(s.profile), target_of(s, op, file_id), after,
                          auth.issued)

\* server.py get_sheets_service(alias)
get_sheets_service(cfg, alias) ==
    LET resource == get_sheet_resource(cfg, alias)
    IN  IF resource = None THEN None
        ELSE Some(Service(resource[1].profile, None, None, resource[1].id))

\* server.py get_drive_service(alias)
get_drive_service(cfg, alias) ==
    LET resource == get_folder_resource(cfg, alias)
    IN  IF resource = None THEN None
        ELSE Some(Service(resource[1].profile, None,
                          Some(get_allowed_folder_ids(cfg, Some(resource[1].profile))),
                          resource[1].id))

\* cli.py sheets commands: the alias resolved, the context of --profile
cli_sheets_service(cfg, alias, profile) ==
    LET sheet_config == get_sheet_resource(cfg, alias)
    IN  IF sheet_config = None THEN None
        ELSE Some(Service(profile, None, None, sheet_config[1].id))

\* cli.py drive list_files: the alias resolved, the context and the
\* allowlist of --profile
cli_drive_service(cfg, alias, profile) ==
    LET folder_config == get_folder_resource(cfg, alias)
    IN  IF folder_config = None THEN None
        ELSE Some(Service(profile, None,
                          Some(get_allowed_folder_ids(cfg, Some(profile))),
                          folder_config[1].id))

\* cli.py drive list_all_files: broad scopes, a DriveService without allowlist
cli_all_files_service(profile) == Some(Service(profile, Some(BroadScopes), None, ""))

\* cli.py config list_sheets / list_folders: config_manager.list_sheets and
\* config_manager.list_folders, which ConfigManager does not define
config_listing(cmd, files, tok) ==
    Run(<<cmd, "no_such_method">>, TRUE, "AttributeError", None, None, files, tok)

\* try: ... except Exception as e: the failure result of the entry point
try_except(run) ==
    [run EXCEPT !.events = @ \o <<IF run.raised THEN "result_error"
                                     ELSE "result_success">>]
     @@ [status |-> IF run.raised THEN "error" ELSE "success",
         message |-> run.error]

\* an entry point without try/except: the exception leaves it
no_handler(run) ==
    [run EXCEPT !.events = @ \o <<IF run.raised THEN "escape"
                                     ELSE "result_success">>]
     @@ [status |-> IF run.raised THEN "escaped" ELSE "success",
         message |-> run.error]

(***************************************************************************)
(* State                                                                   *)
(*   token_file  each profile's token.json                                 *)
(*   now         the clock                                                 *)
(*   issued      the number of tokens the remote has issued                *)
(*   call        the last call made: its arguments, what it saw, and its   *)
(*               outcome; call.prior tells what the call before it did     *)
(*   config_file the installation's config.json                            *)
(*   config      ConfigManager.config, loaded from it at construction      *)
(***************************************************************************)
NoCall == [kind |-> "none"]

\* the records a token file may hold at the start: written by an earlier run
InitRecords ==
    {Credentials(s, 1, r, e) :
        s \in {{"drive.readonly"}, BroadScopes},
        r \in {NoToken, 1}, e \in {0, MaxTime}}

InitFiles == {AbsentFile, GarbageFile} \cup {to_json(c) : c \in InitRecords}

\* the files of the profiles other than "default" at the start
OtherInitFiles ==
    {AbsentFile, to_json(Credentials(BroadScopes, 1, 1, MaxTime))}

AbsentConfig == ConfigFile("absent", {}, {})

Init ==
    /\ config_file = AbsentConfig
    /\ config = load_config(config_file)
    /\ token_file \in [Profiles -> InitFiles]
    /\ \A p \in Profiles \ {"default"} : token_file[p] \in OtherInitFiles
    /\ now = 0
    /\ issued = 1
    /\ call = NoCall

\* time passes
Tick ==
    /\ now < MaxTime
    /\ now' = now + 1
    /\ UNCHANGED <<token_file, issued, call, config_file, config>>

\* the events of the call before this one, when that was a get_credentials
\* call for the same profile and scopes; <<>> otherwise
prior_events(profile, scopes) ==
    IF call.kind = "get_credentials" /\ call.profile = profile
       /\ call.scopes = scopes
    THEN call.events
    ELSE <<>>

\* AuthManager.get_credentials(profile, scopes)
GetCredentials ==
    \E profile \in Profiles, scopes_arg \in ScopeArgs, env \in Env :
        LET r == get_credentials(token_file[profile], scopes_arg, now, issued, env)
        IN  /\ r.issued <= MaxIssued
            /\ token_file' = [token_file EXCEPT ![profile] = r.file]
            /\ issued' = r.issued
            /\ call' = [kind |-> "get_credentials", profile |-> profile,
                        scopes |-> resolve_scopes(scopes_arg),
                        before |-> token_file[profile], at |-> now,
                        events |-> r.events, outcome |-> r.outcome,
                        error |-> r.error, creds |-> r.creds,
                        prior |-> prior_events(profile, resolve_scopes(scopes_arg))]
            /\ UNCHANGED <<now, config_file, config>>

Next == Tick \/ GetCredentials

Spec == Init /\ [][Next]_vars

(***************************************************************************)
(* The Drive calls, on a DriveService constructed for the call             *)
(***************************************************************************)
DriveInit ==
    /\ config_file = AbsentConfig
    /\ config = load_config(config_file)
    /\ token_file = [p \in Profiles |-> AbsentFile]
    /\ now = 0
    /\ issued = 1
    /\ call = NoCall

\* what call keeps of a Drive call
DriveCall(op, allowed_arg, target, lookup, r) ==
    [kind |-> "drive", op |-> op, allowed_arg |-> allowed_arg,
     allowed |-> DriveService(allowed_arg).allowed_folder_ids,
     target |-> target, lookup |-> lookup,
     events |-> r.events, outcome |-> r.outcome, error |-> r.error]

ListFiles ==
    \E allowed_arg \in AllowedArgs, folder_id \in FolderIds, lookup \in Lookups,
       remote \in {"ok", "fails"} :
        /\ call' = DriveCall("list_files", allowed_arg, folder_id, lookup,
                             list_files(DriveService(allowed_arg), folder_id, lookup, remote))
        /\ UNCHANGED <<token_file, now, issued, config_file, config>>

ListAllFiles ==
    \E allowed_arg \in AllowedArgs, remote \in {"ok", "fails"} :
        /\ call' = DriveCall("list_all_files", allowed_arg, "", Lookup("ok", {}),
                             list_all_files(DriveService(allowed_arg), remote))
        /\ UNCHANGED <<token_file, now, issued, config_file, config>>

DownloadFile ==
    \E allowed_arg \in AllowedArgs, file_id \in FileIds, lookup \in Lookups,
       remote \in {"ok", "fails"} :
        /\ call' = DriveCall("download_file", allowed_arg, file_id, lookup,
                             download_file(DriveService(allowed_arg), file_id, lookup, remote))
        /\ UNCHANGED <<token_file, now, issued, config_file, config>>

UploadFile ==
    \E allowed_arg \in AllowedArgs, folder_id \in FolderIds, lookup \in Lookups,
       remote \in {"ok", "fails"} :
        /\ call' = DriveCall("upload_file", allowed_arg, folder_id, lookup,
                             upload_file(DriveService(allowed_arg), folder_id, lookup, remote))
        /\ UNCHANGED <<token_file, now, issued, config_file, config>>

RemoveFile ==
    \E allowed_arg \in AllowedArgs, file_id \in FileIds, lookup \in Lookups,
       remote \in {"ok", "fails"} :
        /\ call' = DriveCall("remove_file", allowed_arg, file_id, lookup,
                             remove_file(DriveService(allowed_arg), file_id, lookup, remote))
        /\ UNCHANGED <<token_file, now, issued, config_file, config>>

DriveNext == ListFiles \/ ListAllFiles \/ DownloadFile \/ UploadFile \/ RemoveFile

DriveSpec == DriveInit /\ [][DriveNext]_vars

(***************************************************************************)
(* The registry and the entry points in operation: ConfigManager is built  *)
(* once from the config.json of the installation, then tools and commands  *)
(* are invoked.  The clock stands still here; the credential's own life is *)
(* the subject of Spec.                                                    *)
(***************************************************************************)
Aliases == {"prompts", "reports", "archive", "missing"}

\* the profile_name arguments of get_allowed_folder_ids
ProfileArgs == {None, Some("")} \cup {Some(p) : p \in Profiles}

\* the registries of the config.json files considered: sheets, drive_folders
Registries ==
    { <<{Entry("prompts", "S1", Some("work"))},
        {Entry("reports", "F1", None), Entry("archive", "F2", Some("work"))}>>,
      <<{Entry("prompts", "S1", None), Entry("reports", "S2", Some("work"))},
        {Entry("reports", "F1", Some("default")),
         Entry("archive", "F2", Some("default"))}>>,
      <<{}, {}>> }

ConfigFiles ==
    {ConfigFile("absent", {}, {}), ConfigFile("invalid_json", {}, {})}
    \cup {ConfigFile(k, r[1], r[2]) : k \in {"ok", "invalid_entry"}, r \in Registries}

\* the token files at the start: none, or a record good for the default scopes
ToolInitFiles == {AbsentFile, to_json(Credentials(DefaultScopes, 1, 1, MaxTime))}

\* what the provider and the remote API answer during an invocation of an
\* entry point that looks no file up: <<env, lookup, remote>>
AllOk == EnvOf("ok", "found", "ok", TRUE, "ok")

AuthFails == EnvOf("fails", "found", "fails", TRUE, "ok")

Worlds ==
    { <<AllOk, Lookup("ok", {}), "ok">>, <<AllOk, Lookup("ok", {}), "fails">>,
      <<AuthFails, Lookup("ok", {}), "ok">> }

\* ... and of one that looks up the parents of a file
FileWorlds ==
    { <<AllOk, Lookup("ok", {"F1"}), "ok">>, <<AllOk, Lookup("ok", {"F2"}), "ok">>,
      <<AllOk, Lookup("not_found", {}), "ok">>,
      <<AllOk, Lookup("ok", {"F1"}), "fails">>,
      <<AuthFails, Lookup("ok", {"F1"}), "ok">> }

ToolInit ==
    /\ config_file \in ConfigFiles
    /\ config = load_config(config_file)
    /\ token_file \in [Profiles -> ToolInitFiles]
    /\ \A p \in Profiles \ {"default"} : token_file[p] # AbsentFile
    /\ now = 0
    /\ issued = 1
    /\ call = NoCall

\* a direct call of a ConfigManager method
ConfigCall(op, arg, result) ==
    [kind |-> "config", op |-> op, arg |-> arg, result |-> result]

ConfigGetSheetResource ==
    \E alias \in Aliases :
        /\ call' = ConfigCall("get_sheet_resource", alias,
                              get_sheet_resource(config, alias))
        /\ UNCHANGED <<token_file, now, issued, config_file, config>>

ConfigGetFolderResource ==
    \E alias \in Aliases :
        /\ call' = ConfigCall("get_folder_resource", alias,
                              get_folder_resource(config, alias))
        /\ UNCHANGED <<token_file, now, issued, config_file, config>>

ConfigGetAllowedFolderIds ==
    \E profile_name \in ProfileArgs :
        /\ call' = ConfigCall("get_allowed_folder_ids", profile_name,
                              get_allowed_folder_ids(config, profile_name))
        /\ UNCHANGED <<token_file, now, issued, config_file, config>>

\* the invocation of an entry point: what it was given and what it did
ToolCall(surface, name, registry, alias, profile_arg, file_id, lookup, r) ==
    [kind |-> "tool", surface |-> surface, name |-> name, registry |-> registry,
     alias |-> alias, profile_arg |-> profile_arg, file_id |-> file_id,
     lookup |-> lookup,
     events |-> r.events, status |-> r.status, message |-> r.message,
     profile |-> r.profile, remote_id |-> r.remote_id]

\* server.py list_sheets, get_sheet_status, insert_prompt, get_prompts
ServerSheetsTool ==
    \E name \in {"list_sheets", "get_sheet_status", "insert_prompt", "get_prompts"},
       sheet_alias \in Aliases, w \in Worlds :
        LET r == try_except(request(<<"resolve">>, get_sheets_service(config, sheet_alias),
                                    "sheets", "", token_file, now, issued, w[1], w[2], w[3]))
        IN  /\ r.issued <= MaxIssued
            /\ call' = ToolCall("server", name, "sheets", Some(sheet_alias), None, "", w[2], r)
            /\ token_file' = r.files
            /\ issued' = r.issued
            /\ UNCHANGED <<now, config_file, config>>

\* server.py list_drive_files
ServerListDriveFiles ==
    \E folder_alias \in Aliases, w \in Worlds :
        LET r == try_except(request(<<"resolve">>, get_drive_service(config, folder_alias),
                                    "list_files", "", token_file, now, issued, w[1], w[2], w[3]))
        IN  /\ r.issued <= MaxIssued
            /\ call' = ToolCall("server", "list_drive_files", "drive_folders",
                            Some(folder_alias), None, "", w[2], r)
            /\ token_file' = r.files
            /\ issued' = r.issued
            /\ UNCHANGED <<now, config_file, config>>

\* server.py upload_file
ServerUploadFile ==
    \E folder_alias \in Aliases, w \in Worlds :
        LET r == try_except(request(<<"resolve">>, get_drive_service(config, folder_alias),
                                    "upload_file", "", token_file, now, issued, w[1], w[2], w[3]))
        IN  /\ r.issued <= MaxIssued
            /\ call' = ToolCall("server", "upload_file", "drive_folders",
                            Some(folder_alias), None, "", w[2], r)
            /\ token_file' = r.files
            /\ issued' = r.issued
            /\ UNCHANGED <<now, config_file, config>>

\* server.py get_file_content
ServerGetFileContent ==
    \E folder_alias \in Aliases, file_id \in {"f1"}, w \in FileWorlds :
        LET r == try_except(request(<<"resolve">>, get_drive_service(config, folder_alias),
                                    "download_file", file_id, token_file, now, issued, w[1], w[2], w[3]))
        IN  /\ r.issued <= MaxIssued
            /\ call' = ToolCall("server", "get_file_content", "drive_folders",
                            Some(folder_alias), None, file_id, w[2], r)
            /\ token_file' = r.files
            /\ issued' = r.issued
            /\ UNCHANGED <<now, config_file, config>>

\* server.py delete_file
ServerDeleteFile ==
    \E folder_alias \in Aliases, file_id \in {"f1"}, w \in FileWorlds :
        LET r == try_except(request(<<"resolve">>, get_drive_service(config, folder_alias),
                                    "remove_file", file_id, token_file, now, issued, w[1], w[2], w[3]))
        IN  /\ r.issued <= MaxIssued
            /\ call' = ToolCall("server", "delete_file", "drive_folders",
                            Some(folder_alias), None, file_id, w[2], r)
            /\ token_file' = r.files
            /\ issued' = r.issued
            /\ UNCHANGED <<now, config_file, config>>

\* cli.py config list_sheets, config list_folders
CliConfigList ==
    \E cmd \in {"list_sheets", "list_folders"}, profile \in Profiles :
        LET r == no_handler(config_listing(cmd, token_file, issued))
        IN  /\ r.issued <= MaxIssued
            /\ call' = ToolCall("cli", cmd, "none", None, Some(profile), "",
                             Lookup("ok", {}), r)
            /\ token_file' = r.files
            /\ issued' = r.issued
            /\ UNCHANGED <<now, config_file, config>>

\* cli.py drive list_all_files
CliDriveListAllFiles ==
    \E profile \in Profiles, w \in Worlds :
        LET r == try_except(request(<<>>, cli_all_files_service(profile),
                                    "list_all_files", "", token_file, now, issued, w[1], w[2], w[3]))
        IN  /\ r.issued <= MaxIssued
            /\ call' = ToolCall("cli", "drive list_all_files", "none", None,
                            Some(profile), "", w[2], r)
            /\ token_file' = r.files
            /\ issued' = r.issued
            /\ UNCHANGED <<now, config_file, config>>

\* cli.py drive list_files
CliDriveListFiles ==
    \E folder_alias \in Aliases, profile \in Profiles, w \in FileWorlds :
        LET r == try_except(request(<<"resolve">>,
                                    cli_drive_service(config, folder_alias, profile),
                                    "list_files", "", token_file, now, issued, w[1], w[2], w[3]))
        IN  /\ r.issued <= MaxIssued
            /\ call' = ToolCall("cli", "drive list_files", "drive_folders",
                            Some(folder_alias), Some(profile), "", w[2], r)
            /\ token_file' = r.files
            /\ issued' = r.issued
            /\ UNCHANGED <<now, config_file, config>>

\* cli.py sheets list_tabs, get_status, get_prompts, insert_prompt
CliSheetsCommand ==
    \E cmd \in {"list_tabs", "get_status", "get_prompts", "insert_prompt"},
       sheet_alias \in Aliases, profile \in Profiles, w \in Worlds :
        LET r == try_except(request(<<"resolve">>,
                                    cli_sheets_service(config, sheet_alias, profile),
                                    "sheets", "", token_file, now, issued, w[1], w[2], w[3]))
        IN  /\ r.issued <= MaxIssued
            /\ call' = ToolCall("cli", cmd, "sheets", Some(sheet_alias),
                            Some(profile), "", w[2], r)
            /\ token_file' = r.files
            /\ issued' = r.issued
            /\ UNCHANGED <<now, config_file, config>>

ToolNext ==
    \/ ConfigGetSheetResource
    \/ ConfigGetFolderResource
    \/ ConfigGetAllowedFolderIds
    \/ ServerSheetsTool
    \/ ServerListDriveFiles
    \/ ServerUploadFile
    \/ ServerGetFileContent
    \/ ServerDeleteFile
    \/ CliConfigList
    \/ CliDriveListAllFiles
    \/ CliDriveListFiles
    \/ CliSheetsCommand

ToolSpec == ToolInit /\ [][ToolNext]_vars

(***************************************************************************)
(* get_credentials called under any profile name, the token.json found     *)
(* through get_config_dir.  The clock stands still: the records at the     *)
(* start include expired ones.                                             *)
(***************************************************************************)
ProfileInit ==
    /\ config_file = AbsentConfig
    /\ config = load_config(config_file)
    /\ token_file \in [Profiles -> InitFiles]
    /\ \A p \in Profiles \ {"default"} : token_file[p] \in OtherInitFiles
    /\ now = 0
    /\ issued = 1
    /\ call = NoCall

\* AuthManager.get_credentials(profile, scopes)
GetCredentialsOfName ==
    \E profile \in ProfileNames, scopes_arg \in ScopeArgs, env \in Env :
        LET dir == stored_at(token_path(profile))
            r == get_credentials(token_file[dir], scopes_arg, now, issued, env)
        IN  /\ r.issued <= MaxIssued
            /\ token_file' = [token_file EXCEPT ![dir] = r.file]
            /\ issued' = r.issued
            /\ call' = [kind |-> "get_credentials", profile |-> profile,
                        scopes |-> resolve_scopes(scopes_arg),
                        before |-> token_file[dir], at |-> now,
                        events |-> r.events, outcome |-> r.outcome,
                        error |-> r.error, creds |-> r.creds,
                        prior |-> prior_events(profile, resolve_scopes(scopes_arg))]
            /\ UNCHANGED <<now, config_file, config>>

ProfileNext == GetCredentialsOfName

ProfileSpec == ProfileInit /\ [][ProfileNext]_vars

(***************************************************************************)
(* Properties                                                              *)
(***************************************************************************)
Has(events, e) == \E i \in DOMAIN events : events[i] = e

\* some a comes before some b
Precedes(events, a, b) ==
    \E i, j \in DOMAIN events : i < j /\ events[i] = a /\ events[j] = b

IsObtain == call.kind = "get_credentials"

\* the token file the call found held a record
FoundRecord == IsObtain /\ call.before.kind = "json"

\* ... whose granted scopes are a superset of the required scopes
FoundScopes == FoundRecord /\ call.scopes \subseteq call.before.scopes

\* ... and which was expired when the call was made
FoundExpired == FoundRecord /\ call.at >= call.before.expiry

\* the record the call found, as a credential record
StoredRecord == from_authorized_user_file(call.before)

\* C1: a stored record whose granted scopes do not superset the required
\* scopes is discarded: the call enters Consent first, never refreshes, and
\* never returns the stored record, whatever the record's expiry and refresh
\* token.
C1_ScopeShortfallGoesToConsent ==
    (FoundRecord /\ ~(call.scopes \subseteq call.before.scopes)) =>
        /\ call.events[1] = "consent"
        /\ ~Has(call.events, "refresh")
        /\ call.creds # Some(StoredRecord)
        /\ (call.outcome = "returned" =>
                /\ call.creds[1].token # call.before.token
                /\ token_file[call.profile] # call.before)

\* C1's case: an unexpired record with a refresh token and too few scopes
\* was found, and the call went through the consent flow to a new record
C1_Witness ==
    /\ FoundRecord
    /\ ~(call.scopes \subseteq call.before.scopes)
    /\ call.at < call.before.expiry
    /\ call.before.refresh_token # NoToken
    /\ call.events = <<"consent", "run_local_server", "open_w", "write", "return">>

\* C2 (as claimed): a failing refresh falls back to the consent flow and is
\* never what ends the call with an error.
C2_RefreshFailureFallsBackToConsent ==
    (IsObtain /\ Has(call.events, "refresh_failed")) =>
        /\ Precedes(call.events, "refresh_failed", "consent")
        /\ call.error # "RefreshError"

\* C8: a call that returns a record it created (Consent) or refreshed has
\* written that record to the profile's token file before returning: the
\* write precedes the return and the file holds the returned record.
C8_PersistedBeforeReturned ==
    (/\ IsObtain
     /\ call.outcome = "returned"
     /\ (Has(call.events, "consent") \/ Has(call.events, "refresh"))) =>
        /\ Precedes(call.events, "write", "return")
        /\ ~Precedes(call.events, "return", "write")
        /\ token_file[call.profile].kind = "json"
        /\ from_authorized_user_file(token_file[call.profile]) = call.creds[1]

\* C8's case: a refreshed record was returned
C8_Witness ==
    /\ IsObtain
    /\ call.outcome = "returned"
    /\ Has(call.events, "refresh")
    /\ call.creds[1] # StoredRecord

\* the step is a get_credentials call that follows a get_credentials call
\* (only time may pass between the two) for the same profile and scopes,
\* with a stored record that has the scopes and is unexpired at both calls
TwoCallsOnValidRecord ==
    /\ FoundScopes
    /\ call.at < call.before.expiry
    /\ call' # call
    /\ call'.kind = "get_credentials"
    /\ call'.profile = call.profile
    /\ call'.scopes = call.scopes
    /\ call'.at < call.before.expiry

\* C9: two successive calls on a record that has the scopes and is
\* unexpired at both write nothing, refresh nothing, launch no consent flow
\* and return the same record, the stored one.
C9_TwoCallsOnValidRecordWriteNothing ==
    [][TwoCallsOnValidRecord =>
        /\ call.events = <<"return">>
        /\ call'.events = <<"return">>
        /\ call.creds = Some(StoredRecord)
        /\ call'.creds = call.creds
        /\ token_file[call.profile] = call.before
        /\ token_file' = token_file
        /\ issued' = issued]_vars

\* C9's case: the second of two such calls has been made, after the clock
\* moved
C9_Witness ==
    /\ FoundScopes
    /\ call.at < call.before.expiry
    /\ call.at > 0
    /\ call.prior = <<"return">>
    /\ call.events = <<"return">>
    /\ token_file[call.profile] = call.before

\* the call found a record with the scopes, expired, with a refresh token
FoundRefreshable == FoundScopes /\ FoundExpired /\ call.before.refresh_token # NoToken

\* C10: on a record that has the scopes, is expired and has a refresh token
\* the call refreshes; when the refresh succeeds (and the save does not
\* fail) it returns a record with another access token and the same refresh
\* token, and the token file holds exactly the returned record.
C10_RefreshedRecord ==
    FoundRefreshable =>
        /\ call.events[1] = "refresh"
        /\ ~Has(call.events, "consent")
        /\ (call.error \notin {"RefreshError", "OSError"} =>
                /\ call.outcome = "returned"
                /\ call.creds[1].token # call.before.token
                /\ call.creds[1].refresh_token = call.before.refresh_token
                /\ call.creds[1].scopes = call.before.scopes
                /\ call.creds[1].expiry > call.at
                /\ token_file[call.profile].kind = "json"
                /\ from_authorized_user_file(token_file[call.profile])
                       = call.creds[1])

\* C10's case: the refresh succeeded and the call returned
C10_Witness ==
    /\ FoundRefreshable
    /\ call.events = <<"refresh", "open_w", "write", "return">>

IsDrive == call.kind = "drive"

\* the operations behind the access guard
GuardedOps == {"list_files", "upload_file", "download_file", "remove_file"}

\* the remote calls of the guarded operations
GuardedCalls == {"files.list", "files.create", "files.get_media", "files.delete"}

\* every remote call a DriveService makes
RemoteCalls == GuardedCalls \cup {"files.get", "files.list_all"}

\* the remote call of each guarded operation
RemoteCallOf(op) ==
    CASE op = "list_files" -> "files.list"
      [] op = "upload_file" -> "files.create"
      [] op = "download_file" -> "files.get_media"
      [] op = "remove_file" -> "files.delete"

\* C3: in every guarded operation the remote call is issued only after the
\* access check has passed: never after a denial, never before the check
\* has finished, and it is the operation's own call.
C3_CheckPrecedesRemoteCall ==
    (IsDrive /\ call.op \in GuardedOps) =>
        \A i \in DOMAIN call.events :
            call.events[i] \in GuardedCalls =>
                /\ call.events[i] = RemoteCallOf(call.op)
                /\ \E j \in 1..(i - 1) : call.events[j] = "access_ok"
                /\ ~Has(call.events, "access_denied")
                /\ \A k \in (i + 1)..Len(call.events) :
                       call.events[k] \notin {"files.get", "access_ok"}

\* C3's case: a removal whose check looked up the parents, passed, and was
\* followed by the delete
C3_Witness ==
    /\ IsDrive
    /\ call.op = "remove_file"
    /\ call.events = <<"files.get", "access_ok", "files.delete", "return">>
    /\ call.lookup.status = "ok"

\* C4: with an empty allowlist (a DriveService built with no
\* allowed_folder_ids included) every guarded operation is denied, whatever
\* its target, and no remote call is made.
C4_EmptyAllowlistDeniesAll ==
    (IsDrive /\ call.op \in GuardedOps /\ call.allowed = {}) =>
        /\ call.outcome = "raised"
        /\ call.error = "no folders configured"
        /\ \A i \in DOMAIN call.events : call.events[i] \notin RemoteCalls

\* C4's case: a download on a DriveService built with allowed_folder_ids=None
C4_Witness ==
    /\ IsDrive
    /\ call.op = "download_file"
    /\ call.allowed_arg = None
    /\ call.target = "f1"
    /\ call.outcome = "raised"

\* C5 (as claimed): with a non-empty allowlist a folder operation passes
\* the check iff its folder_id is in the allowlist, the empty string
\* included.
C5_FolderAllowedIffInAllowlist ==
    (IsDrive /\ call.op \in {"list_files", "upload_file"} /\ call.allowed # {}) =>
        (Has(call.events, "access_ok") <=> call.target \in call.allowed)

\* the call looked up the parents of its file
LookedUp == IsDrive /\ call.op \in {"download_file", "remove_file"}
            /\ Has(call.events, "files.get")

\* C6: when the metadata lookup fails, whatever the failure and the
\* allowlist, access to the file is denied and neither the download nor
\* the removal is issued.
C6_LookupFailureDenies ==
    (LookedUp /\ call.lookup.status # "ok") =>
        /\ call.outcome = "raised"
        /\ Has(call.events, "access_denied")
        /\ ~Has(call.events, "access_ok")
        /\ \A i \in DOMAIN call.events : call.events[i] \notin GuardedCalls

\* C6's case: a transient lookup failure under a non-empty allowlist
C6_Witness ==
    /\ LookedUp
    /\ call.lookup.status = "transient"
    /\ call.allowed = {"F1", "F2"}
    /\ call.outcome = "raised"

\* C7: when the metadata lookup succeeds, access to the file is allowed iff
\* some returned parent is in the allowlist; no parents, or parents all
\* outside the allowlist, is a denial.
C7_FileAllowedIffParentAllowed ==
    (LookedUp /\ call.lookup.status = "ok") =>
        /\ Has(call.events, "access_ok") <=> (call.lookup.parents \cap call.allowed # {})
        /\ Has(call.events, "access_denied") <=> (call.lookup.parents \cap call.allowed = {})
        /\ Has(call.events, RemoteCallOf(call.op)) <=> (call.lookup.parents \cap call.allowed # {})

\* C7's case: a file with one parent in the allowlist and one outside it
C7_Witness ==
    /\ LookedUp
    /\ call.lookup = Lookup("ok", {"F1", "F2"})
    /\ call.allowed = {"F2"}
    /\ Has(call.events, "files.get_media")

\* how often e occurs in events
Count(events, e) == Cardinality({i \in DOMAIN events : events[i] = e})

\* C11: when the profile has no token file, the call enters Consent first
\* and never Refreshing: no remote refresh call is made.
C11_NoRecordGoesToConsent ==
    (IsObtain /\ call.before.kind = "absent") =>
        /\ call.events[1] = "consent"
        /\ ~Has(call.events, "refresh")
        /\ ~Has(call.events, "refresh_failed")
        /\ call.error \notin {"RefreshError", "AttributeError"}

\* C11's case: no token file, and the call went through the consent flow
C11_Witness ==
    /\ IsObtain
    /\ call.before.kind = "absent"
    /\ call.events = <<"consent", "run_local_server", "open_w", "write", "return">>
    /\ token_file[call.profile].kind = "json"

\* C15 (as claimed): a reader of a profile's token file sees the complete
\* old contents or a complete new record, never an empty or truncated file,
\* also when the save fails between its steps.
C15_WriteNeverPartial ==
    IsObtain =>
        \/ token_file[call.profile] = call.before
        \/ /\ token_file[call.profile].kind = "json"
           /\ token_file[call.profile].token # NoToken

\* C17: a call launches the interactive flow at most once, whatever it
\* found in the token file, and not at all when it returns the stored or a
\* refreshed record.
C17_AtMostOneConsentFlow ==
    IsObtain =>
        /\ Count(call.events, "run_local_server") <= 1
        /\ Count(call.events, "consent") <= 1
        /\ (Has(call.events, "refresh") \/ call.events = <<"return">>) =>
               /\ ~Has(call.events, "run_local_server")
               /\ ~Has(call.events, "consent")
        /\ (call.outcome = "returned" /\ ~Has(call.events, "run_local_server")) =>
               (Has(call.events, "refresh") \/ call.creds = Some(StoredRecord))

\* C17's case: an expired record without refresh token was found, the one
\* flow was launched, and it failed
C17_Witness ==
    /\ FoundScopes
    /\ FoundExpired
    /\ call.before.refresh_token = NoToken
    /\ call.events = <<"consent", "run_local_server", "raise">>

\* the call entered the consent branch and the flow did not complete: the
\* client secrets were not found, or the flow failed or was cancelled
ConsentFailed == IsObtain /\ call.error \in {"FileNotFoundError", "FlowError"}

\* C18: when the consent flow fails, the call ends with the error, returns
\* no record and writes nothing: the token file is what it was.
C18_ConsentFailureLeavesStore ==
    ConsentFailed =>
        /\ call.outcome = "raised"
        /\ call.creds = None
        /\ call.events[Len(call.events)] = "raise"
        /\ ~Has(call.events, "open_w")
        /\ ~Has(call.events, "write")
        /\ ~Has(call.events, "return")
        /\ token_file[call.profile] = call.before

\* C18's case: a stored record lacking the scopes, and no client secrets
C18_Witness ==
    /\ FoundRecord
    /\ ~(call.scopes \subseteq call.before.scopes)
    /\ call.error = "FileNotFoundError"
    /\ call.events = <<"consent", "raise">>

\* the call found a token file that does not parse as a record
FoundUnparseable == IsObtain /\ call.before.kind \in {"garbage", "empty"}

\* C19: a token file that does not parse is treated as a missing one: the
\* load error does not reach the caller, the call enters Consent first,
\* never Refreshing, and on success the file holds the new record.
C19_UnparseableFileGoesToConsent ==
    FoundUnparseable =>
        /\ call.events[1] = "consent"
        /\ ~Has(call.events, "refresh")
        /\ call.error \in {"", "FileNotFoundError", "FlowError", "OSError"}
        /\ (call.outcome = "returned" =>
                /\ call.events
                     = <<"consent", "run_local_server", "open_w", "write", "return">>
                /\ token_file[call.profile].kind = "json"
                /\ from_authorized_user_file(token_file[call.profile])
                       = call.creds[1]
                /\ call.creds[1].scopes = call.scopes)

\* C19's case: an unparseable file was overwritten with the new record
C19_Witness ==
    /\ IsObtain
    /\ call.before.kind = "garbage"
    /\ call.outcome = "returned"
    /\ token_file[call.profile].kind = "json"


(***************************************************************************)
(* The registry and the entry points (ToolSpec)                            *)
(***************************************************************************)
IsTool == call.kind = "tool"

IsConfig == call.kind = "config"

\* the invocation names an alias
TakesAlias == IsTool /\ call.alias # None

\* ... which the registry the entry point consults does not hold
UnknownAlias ==
    TakesAlias /\ ~\E e \in config[call.registry] : e.alias = call.alias[1]

\* every remote request an entry point can cause
ToolRemoteCalls == RemoteCalls \cup {"sheets.request"}

\* C12: an entry point given an alias that its registry (sheets or
\* drive_folders) does not hold ends with the not-found error; the alias is
\* not handed to the remote API as an identifier, no credential is requested
\* and no remote call is made.
C12_UnknownAliasStopsTheRequest ==
    UnknownAlias =>
        /\ call.status = "error"
        /\ call.message = "ValueError"
        /\ Has(call.events, "not_found")
        /\ call.remote_id # call.alias
        /\ call.profile = None
        /\ ~Has(call.events, "get_credentials")
        /\ \A i \in DOMAIN call.events : call.events[i] \notin ToolRemoteCalls

\* a sheets entry point was given an alias that only drive_folders holds
C12_Witness ==
    /\ UnknownAlias
    /\ call.registry = "sheets"
    /\ \E e \in config.drive_folders : e.alias = call.alias[1]
    /\ call.events = <<"resolve", "not_found", "result_error">>

\* C13: an entry point that resolved its alias and obtained a credential
\* obtained it for the profile of the resolved entry, on the server and on
\* the command line alike.
C13_CredentialForOwningProfile ==
    (TakesAlias /\ call.profile # None) =>
        \E e \in config[call.registry] :
            e.alias = call.alias[1] /\ call.profile = Some(e.profile)

\* C14: get_allowed_folder_ids(profile_name) with a profile given, the empty
\* string included, returns exactly the ids of the drive_folders entries of
\* that profile; with none given, the ids of all entries.
C14_AllowlistIsTheProfilesIds ==
    (IsConfig /\ call.op = "get_allowed_folder_ids") =>
        IF call.arg = None
        THEN call.result = {e.id : e \in config.drive_folders}
        ELSE call.result =
                {e.id : e \in {f \in config.drive_folders : f.profile = call.arg[1]}}

\* C16: every entry point ends with a result, success or failure with its
\* message; no exception leaves it.
C16_EntryPointsReportFailures ==
    IsTool => call.status \in {"success", "error"}

\* C20: a config.json that is missing, is not JSON or holds an entry that
\* fails validation loads as the empty registry; every alias resolution then
\* fails and every allowlist is empty.
C20_MalformedConfigLoadsEmpty ==
    config_file.kind # "ok" =>
        /\ config.sheets = {}
        /\ config.drive_folders = {}
        /\ (IsConfig /\ call.op \in {"get_sheet_resource", "get_folder_resource"})
              => call.result = None
        /\ (IsConfig /\ call.op = "get_allowed_folder_ids") => call.result = {}
        /\ TakesAlias => Has(call.events, "not_found")

\* an alias of a well-formed entry, beside an ill-formed one, did not resolve
C20_Witness ==
    /\ config_file.kind = "invalid_entry"
    /\ IsConfig
    /\ call.op = "get_sheet_resource"
    /\ \E e \in config_file.sheets : e.alias = call.arg
    /\ call.result = None


\* the server tool reached the download or the removal of the file
ActedOnFile ==
    /\ IsTool
    /\ call.surface = "server"
    /\ call.name \in {"get_file_content", "delete_file"}
    /\ \/ Has(call.events, "files.get_media")
       \/ Has(call.events, "files.delete")

\* C22: get_file_content and delete_file download or remove a file only
\* when its parents include the folder that folder_alias resolves to.
C22_FileInTheAliasFolder ==
    ActedOnFile =>
        \E e \in config.drive_folders :
            e.alias = call.alias[1] /\ e.id \in call.lookup.parents

(***************************************************************************)
(* The returned record and the other profiles' records                     *)
(***************************************************************************)
\* C21: a record get_credentials returns holds every required scope and is
\* not expired at the time of the return, whether it was reused, refreshed
\* or newly granted.
C21_ReturnedRecordIsValid ==
    (IsObtain /\ call.outcome = "returned") =>
        /\ call.creds # None
        /\ call.scopes \subseteq call.creds[1].scopes
        /\ call.creds[1].token # NoToken
        /\ call.at < call.creds[1].expiry

\* an expired record was refreshed and returned
C21_Witness ==
    /\ IsObtain
    /\ call.outcome = "returned"
    /\ call.before.kind = "json"
    /\ call.at >= call.before.expiry
    /\ Has(call.events, "refresh")


\* the stored record of the profile named q
StoredRecordOf(q) == token_file[stored_at(token_path(q))]

\* C23: a get_credentials call for profile p leaves the stored record of
\* every other profile as it was, whatever the outcome of the call.
C23_OtherProfilesUntouched ==
    [][call'.kind = "get_credentials" =>
          \A q \in ProfileNames \ {call'.profile} :
              StoredRecordOf(q)' = StoredRecordOf(q)]_vars

====
